---- MODULE Spec2Model ----
(***************************************************************************)
(* Model of terms/generate_terms.py: the one-shot generator of the Mycal   *)
(* Terms pages.  A run reads data/*.json, validates every file, backfills *)
(* missing termIds into the source files, builds the alias map and then   *)
(* writes index.html, <slug>/index.html, <alias>/index.html, terms.json,  *)
(* terms.ndjson and sitemap-terms.xml.                                     *)
(*                                                                         *)
(* Representation of Python values:                                        *)
(*   - an optional value (dict.get) is <<>> for None and <<v>> for v;      *)
(*   - a JSON object is a record with the set `has` of its keys and the    *)
(*     set `badtype` of the keys whose value fails the isinstance test     *)
(*     made by the validator;                                              *)
(*   - a termId string is [scheme, groups, hex, n]: the text before the    *)
(*     uuid, the lengths of the hyphen-separated groups, whether all the   *)
(*     group characters are hex digits, and which uuid it is;              *)
(*   - a date string is [w, y, m, d]: the digit widths of the three        *)
(*     hyphen-separated numbers and their values;                          *)
(*   - a dict is a sequence of <<key, value>> pairs in insertion order.    *)
(***************************************************************************)
EXTENDS Integers, Sequences, FiniteSets, TLC

VARIABLES
    data_exists,  \* DATA_DIR.exists()
    data,         \* data directory: file name -> parsed content of the file
    mtime,        \* data directory: file name -> st_mtime of the file
    fs,           \* SCRIPT_DIR entries other than data/: name -> node
    pc,           \* position of the process in main()
    queue,        \* file paths still to be visited by the loop of load_terms
    terms,        \* the list `terms`
    alias_map,    \* the dict `alias_map`
    idx,          \* number of items already written by the current write loop
    error,        \* how the process ended: <<>> or <<message>>
    written,      \* output paths written by the current run
    touched,      \* source files opened for writing by the current run
    runs,         \* number of runs started so far
    uuid_calls,   \* number of calls of uuid.uuid4() so far
    start,        \* snapshot of the data directory at the start of the run
    prev          \* <<>> or <<outcome of the previous run>>

vars == <<data_exists, data, mtime, fs, pc, queue, terms, alias_map, idx,
          error, written, touched, runs, uuid_calls, start, prev>>

----------------------------------------------------------------------------
(* Bounds *)

MaxFiles == 2      \* at most this many *.json files in data/
MaxAliases == 1    \* at most this many entries in one aliases array
MaxRuns == 2       \* at most this many runs of the generator
MaxWideFiles == 1  \* at most this many files when the contents vary widely

----------------------------------------------------------------------------
(* Strings *)

SlugUniverse == {"a", "a-", "index.html"}
AliasUniverse == {"a-", "a/"}

\* code points of the characters of the names used
Codes(s) ==
    CASE s = "a" -> <<97>>
      [] s = "a-" -> <<97, 45>>
      [] s = "index.html" -> <<105, 110, 100, 101, 120, 46, 104, 116, 109, 108>>
      [] s = "a.json" -> <<97, 46, 106, 115, 111, 110>>
      [] s = "a-.json" -> <<97, 45, 46, 106, 115, 111, 110>>
      [] s = "index.html.json" ->
            <<105, 110, 100, 101, 120, 46, 104, 116, 109, 108, 46, 106, 115, 111, 110>>

RECURSIVE LexLess(_, _)
\* u < v for Python str: code point by code point, a proper prefix first
LexLess(u, v) ==
    IF u = <<>> THEN v # <<>>
    ELSE IF v = <<>> THEN FALSE
    ELSE IF Head(u) = Head(v) THEN LexLess(Tail(u), Tail(v))
    ELSE Head(u) < Head(v)

StrLess(s, t) == LexLess(Codes(s), Codes(t))

\* str.strip() on the strings used: " " is the only one with blanks
Strip(s) == IF s = " " THEN "" ELSE s

\* truth value of an optional string-like value: None and "" are false
Truthy(opt, empty) == opt # <<>> /\ opt[1] # empty

\* the URLs of the links used
UrlUniverse ==
    {"https://example.com/a",
     "https://blog.mycal.net/",
     "https://blog.mycal.net/p/1",
     "https://blog.mycal.net/tag/x/",
     "https://archive.mycal.net/p/1",
     "https://archive.mycal.net/tag/x/"}

FileNames == {s \o ".json" : s \in SlugUniverse}

\* variant: a trailing hyphen of the stem is dropped
Stem_nohyphen(filename) ==
    IF filename = "a-.json" THEN "a"
    ELSE CHOOSE s \in SlugUniverse : s \o ".json" = filename

\* Path.stem of a *.json file name
Stem(filename) == CHOOSE s \in SlugUniverse : s \o ".json" = filename

CANONICAL_BASE_URL == "https://www.mycal.net/terms/"

canonical_term_url(slug) == CANONICAL_BASE_URL \o slug \o "/"

----------------------------------------------------------------------------
(* termId strings *)

EmptyId == [scheme |-> "", groups |-> <<>>, hex |-> TRUE, n |-> 0]

\* f"urn:uuid:{u}" for the uuid number n, str(UUID) being 8-4-4-4-12 hex
UrnUuid(n) == [scheme |-> "urn:uuid:", groups |-> <<8, 4, 4, 4, 12>>, hex |-> TRUE, n |-> n]

\* str(UUID) alone, without the urn prefix
BareUuid(n) == [scheme |-> "", groups |-> <<8, 4, 4, 4, 12>>, hex |-> TRUE, n |-> n]

TERM_ID_RE_match(s) ==
    /\ s.scheme = "urn:uuid:"
    /\ s.groups = <<8, 4, 4, 4, 12>>
    /\ s.hex

\* uuid.uuid4(): a value no earlier call has returned (122 random bits),
\* numbered by the calls made so far
uuid4(calls) == calls + 1

\* a termId already present in a source file: no uuid4() of these runs
PresetId == UrnUuid(0)

----------------------------------------------------------------------------
(* date strings *)

EmptyDate == [w |-> <<>>, y |-> 0, m |-> 0, d |-> 0]

DateStr(y, m, d) == [w |-> <<4, 2, 2>>, y |-> y, m |-> m, d |-> d]

IsLeap(y) == (y % 4 = 0 /\ y % 100 # 0) \/ y % 400 = 0

DaysInMonth(y, m) ==
    IF m = 2 THEN (IF IsLeap(y) THEN 29 ELSE 28)
    ELSE IF m \in {4, 6, 9, 11} THEN 30 ELSE 31

\* datetime.strptime(value, "%Y-%m-%d") does not raise ValueError
StrptimeOk(v) ==
    /\ Len(v.w) = 3
    /\ v.w[1] = 4
    /\ v.w[2] \in {1, 2}
    /\ v.w[3] \in {1, 2}
    /\ v.y \in 1..9999
    /\ v.m \in 1..12
    /\ v.d \in 1..DaysInMonth(v.y, v.m)

----------------------------------------------------------------------------
(* fail(): the message of the error, kept as a record *)

Fail(kind, file, field) == [kind |-> kind, file |-> file, field |-> field]

parse_iso_date(value, field, filename) ==
    IF StrptimeOk(value) THEN <<>> ELSE <<Fail("schema", filename, field)>>

----------------------------------------------------------------------------
(* validate_term_types: <<>> when it returns, <<message>> when it fails *)

RECURSIVE FirstError(_)
\* the first failure of a sequence of checks made one after the other
FirstError(checks) ==
    IF checks = <<>> THEN <<>>
    ELSE IF Head(checks) # <<>> THEN Head(checks)
    ELSE FirstError(Tail(checks))

BadString(d, f) == f \in d.badtype \/ Strip(d[f]) = ""

CheckLink(link, i, filename) ==
    FirstError(<<
        IF ~link.isobj THEN <<Fail("schema", filename, "links")>> ELSE <<>>,
        IF ~({"url", "label"} \subseteq link.has)
            THEN <<Fail("schema", filename, "links")>> ELSE <<>>,
        IF "url" \in link.badtype \/ Strip(link.url) = ""
            THEN <<Fail("schema", filename, "links.url")>> ELSE <<>>,
        IF "label" \in link.badtype \/ Strip(link.label) = ""
            THEN <<Fail("schema", filename, "links.label")>> ELSE <<>>
    >>)

CheckStringArray(d, f, filename) ==
    IF f \in d.has
       /\ (f \in d.badtype \/ \E k \in 1..Len(d[f]) : Strip(d[f][k]) = "")
    THEN <<Fail("schema", filename, f)>> ELSE <<>>

CheckDate(d, f, filename) ==
    IF f \notin d.has THEN <<>>
    ELSE IF f \in d.badtype THEN <<Fail("schema", filename, f)>>
    ELSE parse_iso_date(d[f], f, filename)

\* variant: only a termId that is truthy is matched against the pattern
CheckTermId_truthy(d, filename) ==
    IF "termId" \in d.has /\ "termId" \notin d.badtype /\ d.termId # EmptyId
       /\ ~TERM_ID_RE_match(d.termId)
    THEN <<Fail("schema", filename, "termId")>> ELSE <<>>

\* the test of lines 87-88
CheckTermId(d, filename) ==
    IF "termId" \in d.has /\ ("termId" \in d.badtype \/ ~TERM_ID_RE_match(d.termId))
    THEN <<Fail("schema", filename, "termId")>> ELSE <<>>

validate_term_types(d, filename) ==
    FirstError(<<
        FirstError([k \in 1..4 |->
            LET f == <<"name", "date", "description", "links">>[k]
            IN  IF f \notin d.has THEN <<Fail("missing", filename, f)>> ELSE <<>>]),
        IF BadString(d, "name") THEN <<Fail("schema", filename, "name")>> ELSE <<>>,
        IF BadString(d, "date") THEN <<Fail("schema", filename, "date")>> ELSE <<>>,
        IF BadString(d, "description")
            THEN <<Fail("schema", filename, "description")>> ELSE <<>>,
        IF "links" \in d.badtype \/ d.links = <<>>
            THEN <<Fail("schema", filename, "links")>> ELSE <<>>,
        FirstError([k \in 1..Len(d.links) |-> CheckLink(d.links[k], k, filename)]),
        CheckStringArray(d, "sameAs", filename),
        CheckStringArray(d, "aliases", filename),
        CheckTermId(d, filename),
        IF "temporalCoverage" \in d.has /\ BadString(d, "temporalCoverage")
            THEN <<Fail("schema", filename, "temporalCoverage")>> ELSE <<>>,
        CheckDate(d, "startDate", filename),
        CheckDate(d, "endDate", filename),
        CheckDate(d, "dateISO", filename)
    >>)

----------------------------------------------------------------------------
(* Source files *)

Link0 == [isobj |-> TRUE, has |-> {"url", "label"}, badtype |-> {},
          url |-> "https://example.com/a", label |-> "A"]

\* a valid term file with the required fields only
Base == [kind |-> "object",
         has |-> {"name", "date", "description", "links"},
         badtype |-> {},
         name |-> "Alpha", date |-> "2025", description |-> "First",
         links |-> <<Link0>>,
         sameAs |-> <<>>, aliases |-> <<>>,
         termId |-> EmptyId,
         temporalCoverage |-> "",
         startDate |-> EmptyDate, endDate |-> EmptyDate, dateISO |-> EmptyDate,
         other |-> <<>>]   \* the keys the generator does not read, in file order

\* a file json.load cannot parse (also: an empty or truncated file)
Unparseable == [Base EXCEPT !.kind = "unparseable", !.has = {}, !.links = <<>>,
                            !.name = "", !.date = "", !.description = ""]

\* a file whose JSON value is a number, true, false or null
Scalar == [Unparseable EXCEPT !.kind = "scalar"]

WithField(d, f, v) == [d EXCEPT !.has = @ \cup {f}, ![f] = v]

WithAliases(d, q) == IF q = <<>> THEN d ELSE WithField(d, "aliases", q)

AliasLists == UNION {[1..n -> AliasUniverse] : n \in 0..MaxAliases}

\* a valid term file that already carries a termId
Stamped == WithField(Base, "termId", PresetId)

\* valid files: without termId and any alias list, with termId and at most
\* one alias, with a startDate
ValidContents ==
    {WithAliases(Base, q) : q \in AliasLists}
    \cup {WithAliases(Stamped, q) : q \in {r \in AliasLists : Len(r) <= 1}}
    \cup {WithField(Base, "startDate", DateStr(2025, 2, 28))}

InvalidContents ==
    { Unparseable,
      Scalar,
      WithField(Base, "startDate", DateStr(2025, 13, 40)),
      WithField(Base, "termId", EmptyId) }

Contents == ValidContents \cup InvalidContents

Link(u) == [Link0 EXCEPT !.url = u]

\* a key whose value fails the isinstance test (null, a number, ...)
Mistyped(d, f) == [d EXCEPT !.has = @ \cup {f}, !.badtype = @ \cup {f}]

ShortDate(y, m, d) == [w |-> <<4, 1, 1>>, y |-> y, m |-> m, d |-> d]

\* term files that differ from Base in one place: the links
LinkContents ==
    {[Base EXCEPT !.links = <<Link(u)>>] : u \in UrlUniverse}
    \cup {[Base EXCEPT !.links = <<Link(u), Link("https://archive.mycal.net/tag/x/")>>] :
            u \in {"https://example.com/a", "https://blog.mycal.net/"}}

\* ... the termId
TermIdContents ==
    { Stamped,
      WithField(Base, "termId", EmptyId),
      WithField(Base, "termId", [UrnUuid(0) EXCEPT !.scheme = ""]),
      WithField(Base, "termId", [UrnUuid(0) EXCEPT !.hex = FALSE]),
      WithField(Base, "termId", [UrnUuid(0) EXCEPT !.groups = <<8, 4, 4, 12>>]),
      Mistyped(Base, "termId") }

\* ... the machine dates
DateContents ==
    { WithField(Base, "temporalCoverage", "2025/2026"),
      WithField(Base, "temporalCoverage", " "),
      WithField(Base, "startDate", DateStr(2024, 2, 29)),
      WithField(Base, "startDate", DateStr(2025, 2, 29)),
      WithField(Base, "startDate", DateStr(2025, 13, 40)),
      WithField(Base, "startDate", ShortDate(2025, 1, 2)),
      Mistyped(Base, "startDate"),
      WithField(Base, "endDate", DateStr(2025, 12, 31)),
      WithField(Base, "dateISO", DateStr(2025, 1, 2)),
      WithField(WithField(WithField(WithField(Stamped,
          "temporalCoverage", "2025/2026"),
          "startDate", DateStr(2025, 1, 2)),
          "endDate", DateStr(2025, 12, 31)),
          "dateISO", DateStr(2025, 1, 2)) }

\* ... the required fields, sameAs and aliases
FieldContents ==
    { Unparseable,
      Scalar,
      [Base EXCEPT !.name = " "],
      Mistyped(Base, "description"),
      [Base EXCEPT !.has = @ \ {"date"}, !.name = ""],
      [Base EXCEPT !.has = @ \ {"links"}, !.links = <<>>],
      [Base EXCEPT !.links = <<>>],
      [Base EXCEPT !.links = <<Link0, [Link0 EXCEPT !.isobj = FALSE]>>],
      [Base EXCEPT !.links = <<[Link0 EXCEPT !.has = {"url"}]>>],
      [Base EXCEPT !.links = <<[Link0 EXCEPT !.url = " "]>>],
      [Base EXCEPT !.links = <<Link0, [Link0 EXCEPT !.badtype = {"label"}]>>],
      WithField(Base, "sameAs", <<"https://example.com/same">>),
      WithField(Base, "sameAs", <<"https://example.com/same", " ">>),
      Mistyped(Base, "aliases"),
      WithField(Base, "aliases", <<"a/", "">>),
      WithField(Base, "aliases", <<"a-">>),
      WithField(Base, "aliases", <<"a-", "a-">>),
      WithField(Stamped, "aliases", <<"a/">>),
      [Base EXCEPT !.other = << <<"note", "kept">>, <<"weight", "1.5">> >>] }

WideContents == LinkContents \cup TermIdContents \cup DateContents \cup FieldContents

\* dict.get(key): None when the key is absent
Get(d, f) == IF f \in d.has THEN <<d[f]>> ELSE <<>>

\* dict.get(key, []) of an array field
GetList(d, f) == IF f \in d.has THEN d[f] ELSE <<>>

----------------------------------------------------------------------------
(* Sorting *)

RECURSIVE SortedSeq_descending(_)
\* variant: descending order
SortedSeq_descending(S) ==
    IF S = {} THEN <<>>
    ELSE LET m == CHOOSE x \in S : \A y \in S \ {x} : StrLess(y, x)
         IN  <<m>> \o SortedSeq_descending(S \ {m})

RECURSIVE SortedSeq(_)
\* sorted(S) for a set of names: ascending code point order
SortedSeq(S) ==
    IF S = {} THEN <<>>
    ELSE LET m == CHOOSE x \in S : \A y \in S \ {x} : StrLess(x, y)
         IN  <<m>> \o SortedSeq(S \ {m})

\* DATA_DIR.glob("*.json")
Glob(dir) == DOMAIN dir

\* variant: the final sort is left out
SortBySlug_unsorted(ts) == ts

\* terms.sort(key=lambda t: t["slug"])
SortBySlug(ts) == SortSeq(ts, LAMBDA s, t : StrLess(s.slug, t.slug))

----------------------------------------------------------------------------
(* normalize_term_file and the record built by load_terms *)

\* variant: the identifier is written without the urn:uuid: prefix
normalize_term_file_bare(d, u) ==
    LET term_id == Get(d, "termId")
    IN  IF Truthy(term_id, EmptyId)
        THEN [term_id |-> term_id[1], wrote |-> FALSE, data |-> d]
        ELSE [term_id |-> BareUuid(u), wrote |-> TRUE,
              data |-> WithField(d, "termId", BareUuid(u))]

\* variant: a termId already in the file is not looked at
normalize_term_file_always(d, u) ==
    [term_id |-> UrnUuid(u), wrote |-> TRUE,
     data |-> WithField(d, "termId", UrnUuid(u))]

\* variant: only the keys the generator reads are written back
normalize_term_file_known(d, u) ==
    LET term_id == Get(d, "termId")
    IN  IF Truthy(term_id, EmptyId)
        THEN [term_id |-> term_id[1], wrote |-> FALSE, data |-> d]
        ELSE [term_id |-> UrnUuid(u), wrote |-> TRUE,
              data |-> [WithField(d, "termId", UrnUuid(u)) EXCEPT !.other = <<>>]]

\* u is the value uuid.uuid4() returns if it is called
normalize_term_file(d, u) ==
    LET term_id == Get(d, "termId")
    IN  IF Truthy(term_id, EmptyId)
        THEN [term_id |-> term_id[1], wrote |-> FALSE, data |-> d]
        ELSE [term_id |-> UrnUuid(u), wrote |-> TRUE,
              data |-> WithField(d, "termId", UrnUuid(u))]

MakeTerm(slug, d, term_id, mt) ==
    [slug |-> slug,
     name |-> d.name,
     date |-> d.date,
     description |-> d.description,
     links |-> [k \in 1..Len(d.links) |->
                    [url |-> d.links[k].url, label |-> d.links[k].label]],
     sameAs |-> GetList(d, "sameAs"),
     aliases |-> GetList(d, "aliases"),
     termId |-> term_id,
     temporalCoverage |-> Get(d, "temporalCoverage"),
     startDate |-> Get(d, "startDate"),
     endDate |-> Get(d, "endDate"),
     dateISO |-> Get(d, "dateISO"),
     source_mtime |-> mt]

----------------------------------------------------------------------------
(* build_alias_map *)

DictHas(dict, k) == \E i \in 1..Len(dict) : dict[i][1] = k

\* dict.get(k)
DictGet(dict, k) ==
    IF DictHas(dict, k)
    THEN <<dict[CHOOSE i \in 1..Len(dict) : dict[i][1] = k][2]>>
    ELSE <<>>

\* variant: key and value the wrong way round
DictSet_reversed(dict, k, v) ==
    IF DictHas(dict, v)
    THEN [i \in 1..Len(dict) |-> IF dict[i][1] = v THEN <<v, k>> ELSE dict[i]]
    ELSE Append(dict, <<v, k>>)

\* dict[k] = v: a new key goes last, an old key keeps its place
DictSet(dict, k, v) ==
    IF DictHas(dict, k)
    THEN [i \in 1..Len(dict) |-> IF dict[i][1] = k THEN <<k, v>> ELSE dict[i]]
    ELSE Append(dict, <<k, v>>)

DictKeys(dict) == {dict[i][1] : i \in 1..Len(dict)}

RECURSIVE AliasPairs(_)
\* the <<alias, slug>> pairs in the order the two nested loops visit them
AliasPairs(ts) ==
    IF ts = <<>> THEN <<>>
    ELSE [k \in 1..Len(Head(ts).aliases) |-> <<Head(ts).aliases[k], Head(ts).slug>>]
         \o AliasPairs(Tail(ts))

\* variant: the test against the canonical slugs is missing
AliasCheck_nocanonical(alias, slug, canonical_slugs, amap) ==
    LET existing == DictGet(amap, alias)
    IN  IF Truthy(existing, "") /\ existing[1] # slug
        THEN <<Fail("alias", slug, alias)>>
        ELSE <<>>

\* variant: an alias seen before is a collision, whoever listed it
AliasCheck_anyexisting(alias, slug, canonical_slugs, amap) ==
    LET existing == DictGet(amap, alias)
    IN  IF alias \in canonical_slugs
        THEN <<Fail("alias", slug, alias)>>
        ELSE IF Truthy(existing, "")
        THEN <<Fail("alias", slug, alias)>>
        ELSE <<>>

\* variant: the test against the aliases seen so far is missing
AliasCheck_noshared(alias, slug, canonical_slugs, amap) ==
    IF alias \in canonical_slugs
    THEN <<Fail("alias", slug, alias)>>
    ELSE <<>>

\* one iteration of the inner loop: <<>> or the collision it reports
AliasCheck(alias, slug, canonical_slugs, amap) ==
    LET existing == DictGet(amap, alias)
    IN  IF alias \in canonical_slugs
        THEN <<Fail("alias", slug, alias)>>
        ELSE IF Truthy(existing, "") /\ existing[1] # slug
        THEN <<Fail("alias", slug, alias)>>
        ELSE <<>>

RECURSIVE AliasLoop(_, _, _)
AliasLoop(pairs, canonical_slugs, amap) ==
    IF pairs = <<>> THEN [err |-> <<>>, map |-> amap]
    ELSE LET alias == Head(pairs)[1]
             slug == Head(pairs)[2]
             e == AliasCheck(alias, slug, canonical_slugs, amap)
         IN  IF e # <<>> THEN [err |-> e, map |-> <<>>]
             ELSE AliasLoop(Tail(pairs), canonical_slugs, DictSet(amap, alias, slug))

build_alias_map(ts) ==
    AliasLoop(AliasPairs(ts), {ts[k].slug : k \in 1..Len(ts)}, <<>>)

----------------------------------------------------------------------------
(* Output files.  fs maps the path of every regular file under SCRIPT_DIR  *)
(* (data/ apart) to its content; dirs is derived from the paths.           *)

OUTPUT_FILE == "index.html"
TERMS_JSON_FILE == "terms.json"
TERMS_NDJSON_FILE == "terms.ndjson"
SITEMAP_TERMS_FILE == "sitemap-terms.xml"
SCRIPT_FILE == "generate_terms.py"

\* the path component pathlib keeps of a name: a trailing "/" is dropped
PathPart(name) == IF name = "a/" THEN "a" ELSE name

\* SCRIPT_DIR / name / "index.html"
PagePath(name) == PathPart(name) \o "/index.html"

\* the directories under SCRIPT_DIR: data/ and the parents of the pages
IsDir(files, name) == name = "data" \/ PagePath(name) \in DOMAIN files

IsFile(files, name) == name \in DOMAIN files

\* write_file(SCRIPT_DIR / name, ...): the parent exists, open() raises
\* IsADirectoryError on a directory
CanWriteTop(files, name) == ~IsDir(files, name)

\* write_file(SCRIPT_DIR / name / "index.html", ...): mkdir(parents=True,
\* exist_ok=True) raises FileExistsError when name is a regular file
CanWritePage(files, name) == ~IsFile(files, PathPart(name))

Put(files, path, contents) ==
    [p \in DOMAIN files \cup {path} |-> IF p = path THEN contents ELSE files[p]]

----------------------------------------------------------------------------
(* Page and export contents *)

\* `sub in url` for the two substrings the classification looks for
Contains(url, sub) ==
    CASE sub = "archive.mycal.net" ->
            url \in {"https://archive.mycal.net/p/1", "https://archive.mycal.net/tag/x/"}
      [] sub = "tag/" ->
            url \in {"https://blog.mycal.net/tag/x/", "https://archive.mycal.net/tag/x/"}

no_defined_in ==
    {"https://blog.mycal.net/", "https://nobgp.com/", "https://anchorid.net/",
     "https://music.mycal.net/"}

\* a JSON-LD object is the sequence of its <<key, value>> members
Ref(id) == << <<"@id", id>> >>

\* variant: dateISO is copied under its own name
apply_machine_dates_samekey(node, term) ==
    node
    \o (IF Truthy(term.temporalCoverage, "")
        THEN << <<"temporalCoverage", term.temporalCoverage[1]>> >> ELSE <<>>)
    \o (IF Truthy(term.startDate, EmptyDate)
        THEN << <<"startDate", term.startDate[1]>> >> ELSE <<>>)
    \o (IF Truthy(term.endDate, EmptyDate)
        THEN << <<"endDate", term.endDate[1]>> >> ELSE <<>>)
    \o (IF Truthy(term.dateISO, EmptyDate)
        THEN << <<"dateISO", term.dateISO[1]>> >> ELSE <<>>)

\* the members added by apply_machine_dates, after those of node
apply_machine_dates(node, term) ==
    node
    \o (IF Truthy(term.temporalCoverage, "")
        THEN << <<"temporalCoverage", term.temporalCoverage[1]>> >> ELSE <<>>)
    \o (IF Truthy(term.startDate, EmptyDate)
        THEN << <<"startDate", term.startDate[1]>> >> ELSE <<>>)
    \o (IF Truthy(term.endDate, EmptyDate)
        THEN << <<"endDate", term.endDate[1]>> >> ELSE <<>>)
    \o (IF Truthy(term.dateISO, EmptyDate)
        THEN << <<"datePublished", term.dateISO[1]>> >> ELSE <<>>)

\* variant: the tag test comes before the archive test
IsDefinedIn_tagfirst(first_url) ==
    IF Contains(first_url, "tag/")
    THEN << <<"@type", "CreativeWorkSeries">>, <<"@id", first_url>> >>
    ELSE IF Contains(first_url, "archive.mycal.net")
    THEN << <<"@type", "DiscussionForumPosting">>, <<"@id", first_url>> >>
    ELSE << <<"@type", "Article">>, <<"@id", first_url \o "#article">> >>

\* the if / elif / else that builds node["isDefinedIn"]
IsDefinedIn(first_url) ==
    IF Contains(first_url, "archive.mycal.net")
    THEN << <<"@type", "DiscussionForumPosting">>, <<"@id", first_url>> >>
    ELSE IF Contains(first_url, "tag/")
    THEN << <<"@type", "CreativeWorkSeries">>, <<"@id", first_url>> >>
    ELSE << <<"@type", "Article">>, <<"@id", first_url \o "#article">> >>

\* variant: the link classified is the last one
FirstUrl_last(term) == term.links[Len(term.links)].url

\* first_url = term["links"][0]["url"]
FirstUrl(term) == term.links[1].url

build_defined_term_node(term) ==
    LET node ==
          << <<"@type", "DefinedTerm">>,
             <<"@id", CANONICAL_BASE_URL \o "#" \o term.slug>>,
             <<"name", term.name>>,
             <<"termCode", term.slug>>,
             <<"description", term.description>>,
             <<"inDefinedTermSet", Ref(CANONICAL_BASE_URL \o "#termset")>>,
             <<"url", canonical_term_url(term.slug)>>,
             <<"creator", Ref("https://blog.mycal.net/about/#mycal")>>,
             <<"dateCreated", term.date>>,
             <<"identifier", << <<"@type", "PropertyValue">>,
                                <<"propertyID", "term-uuid">>,
                                <<"value", term.termId>> >> >> >>
        first_url == FirstUrl(term)
        defined ==
          IF first_url \notin no_defined_in
          THEN << <<"isDefinedIn", IsDefinedIn(first_url)>> >> ELSE <<>>
        same == IF term.sameAs # <<>> THEN << <<"sameAs", term.sameAs>> >> ELSE <<>>
    IN  apply_machine_dates(node \o defined \o same, term)

\* variant: the references are listed last term first
TermRefs_reversed(ts) ==
    [k \in 1..Len(ts) |-> Ref(CANONICAL_BASE_URL \o "#" \o ts[Len(ts) + 1 - k].slug)]

\* the list hasDefinedTerm of the term set
TermRefs(ts) ==
    [k \in 1..Len(ts) |-> Ref(CANONICAL_BASE_URL \o "#" \o ts[k].slug)]

\* the @graph of the index page; of the five fixed nodes and the breadcrumb
\* only @type and @id are kept, and hasDefinedTerm of the term set
build_jsonld(ts) ==
    << << <<"@type", "Person">>, <<"@id", "https://blog.mycal.net/about/#mycal">> >>,
       << <<"@type", "Organization">>, <<"@id", "https://blog.mycal.net/#publisher">> >>,
       << <<"@type", "WebSite">>, <<"@id", "https://www.mycal.net/#website">> >>,
       << <<"@type", "WebPage">>, <<"@id", CANONICAL_BASE_URL \o "#webpage">> >>,
       << <<"@type", "DefinedTermSet">>,
          <<"@id", CANONICAL_BASE_URL \o "#termset">>,
          <<"hasDefinedTerm", TermRefs(ts)>> >> >>
    \o [k \in 1..Len(ts) |-> build_defined_term_node(ts[k])]
    \o << << <<"@type", "BreadcrumbList">> >> >>

\* the @graph of a term page; of the WebPage node only @type, @id, url and
\* mainEntity are kept
build_term_page_jsonld(term) ==
    << << <<"@type", "WebPage">>,
          <<"@id", canonical_term_url(term.slug) \o "#webpage">>,
          <<"url", canonical_term_url(term.slug)>>,
          <<"mainEntity", Ref(CANONICAL_BASE_URL \o "#" \o term.slug)>> >>,
       build_defined_term_node(term) >>

\* the index page: the entries (every link of every term), the graph and
\* the alias map embedded in the script
build_page(ts, jsonld, amap) ==
    [kind |-> "index", terms |-> ts, jsonld |-> jsonld, alias_map |-> amap]

\* a term page: canonical link, every link of the term, the graph
build_term_page(term) ==
    [kind |-> "term", canonical |-> canonical_term_url(term.slug), term |-> term,
     jsonld |-> build_term_page_jsonld(term)]

build_alias_redirect_page(alias, canonical_slug) ==
    [kind |-> "redirect", canonical |-> canonical_term_url(canonical_slug),
     title |-> canonical_slug]

OptionalExportFields == <<"temporalCoverage", "startDate", "endDate", "dateISO">>

RECURSIVE OptionalPairs(_, _)
\* the pairs added by `if term.get(field): obj[field] = term[field]`
OptionalPairs(term, fields) ==
    IF fields = <<>> THEN <<>>
    ELSE LET f == Head(fields)
             empty == IF f = "temporalCoverage" THEN "" ELSE EmptyDate
         IN  (IF Truthy(term[f], empty) THEN <<<<f, term[f]>>>> ELSE <<>>)
             \o OptionalPairs(term, Tail(fields))

\* variant: sameAs and aliases are exported only when they are not empty
ExportObject_skipempty(term) ==
    << <<"slug", term.slug>>,
       <<"name", term.name>>,
       <<"date", term.date>>,
       <<"description", term.description>>,
       <<"links", term.links>> >>
    \o (IF term.sameAs # <<>> THEN << <<"sameAs", term.sameAs>> >> ELSE <<>>)
    \o (IF term.aliases # <<>> THEN << <<"aliases", term.aliases>> >> ELSE <<>>)
    \o << <<"termId", term.termId>>,
          <<"canonicalUrl", canonical_term_url(term.slug)>> >>
    \o OptionalPairs(term, OptionalExportFields)

\* the dict `obj` of export_terms, as the pairs json.dump writes for it
ExportObject(term) ==
    << <<"slug", term.slug>>,
       <<"name", term.name>>,
       <<"date", term.date>>,
       <<"description", term.description>>,
       <<"links", term.links>>,
       <<"sameAs", term.sameAs>>,
       <<"aliases", term.aliases>>,
       <<"termId", term.termId>>,
       <<"canonicalUrl", canonical_term_url(term.slug)>> >>
    \o OptionalPairs(term, OptionalExportFields)

\* variant: the whole record is exported, source_mtime included
ExportObjects_withmtime(ts) ==
    [k \in 1..Len(ts) |->
        ExportObject(ts[k]) \o << <<"source_mtime", ts[k].source_mtime>> >>]

\* the list `objects` of export_terms
ExportObjects(ts) == [k \in 1..Len(ts) |-> ExportObject(ts[k])]

\* json.load of an exported object: a dict keyed by the member names
ParseObject(pairs) ==
    [key \in {pairs[i][1] : i \in 1..Len(pairs)} |->
        pairs[CHOOSE i \in 1..Len(pairs) : pairs[i][1] = key][2]]

ParseObjects(text) == [k \in 1..Len(text) |-> ParseObject(text[k])]

Max(S) == CHOOSE x \in S : \A y \in S : y <= x

\* datetime.date(): the UTC day of a modification time; the clock of the
\* model ticks twice a day
DateOf(mt) == mt \div 2

\* variant: the entry of the index is left out
SitemapUrls_noindex(ts) ==
    [k \in 1..Len(ts) |->
          [loc |-> canonical_term_url(ts[k].slug),
           lastmod |-> DateOf(ts[k].source_mtime)]]

\* variant: the index carries the date of the first term
SitemapUrls_firstterm(ts) ==
    <<[loc |-> CANONICAL_BASE_URL, lastmod |-> DateOf(ts[1].source_mtime)]>>
    \o [k \in 1..Len(ts) |->
          [loc |-> canonical_term_url(ts[k].slug),
           lastmod |-> DateOf(ts[k].source_mtime)]]

\* the <url> entries of the sitemap, in the order they are written
SitemapUrls(ts) ==
    <<[loc |-> CANONICAL_BASE_URL,
       lastmod |-> DateOf(Max({ts[k].source_mtime : k \in 1..Len(ts)}))]>>
    \o [k \in 1..Len(ts) |->
          [loc |-> canonical_term_url(ts[k].slug),
           lastmod |-> DateOf(ts[k].source_mtime)]]

----------------------------------------------------------------------------
(* main(): the order of its steps after load_terms has returned *)

\* variant: the index page is written before the alias map is built
MainOrder_writefirst ==
    <<"write_index", "alias", "write_terms", "write_aliases", "export", "sitemap", "done">>

MainOrder ==
    <<"alias", "write_index", "write_terms", "write_aliases", "export", "sitemap", "done">>

PhaseAfter(p) == MainOrder[(CHOOSE i \in 1..Len(MainOrder) : MainOrder[i] = p) + 1]

\* the step after p; a loop over an empty alias map has no iteration
Advance(p, amap) ==
    LET q == PhaseAfter(p)
    IN  IF q = "write_aliases" /\ amap = <<>> THEN PhaseAfter(q) ELSE q

Ended == {"done", "failed", "crashed"}

\* what a run leaves behind
Outcome ==
    [start |-> start, pc |-> pc, error |-> error, terms |-> terms,
     alias_map |-> alias_map, fs |-> fs, touched |-> touched]

\* the exit status of the process: 0 when main() returns, 1 from sys.exit(1)
\* in fail() and 1 when the interpreter ends on an uncaught exception
ExitStatus == IF pc = "done" THEN 0 ELSE 1

Snapshot == [exists |-> data_exists, data |-> data, mtime |-> mtime, fs |-> fs]

\* the time of the current run, later than every mtime before it
Now == runs + 1

----------------------------------------------------------------------------
(* Initial states: a data directory of at most MaxFiles term files, no     *)
(* output yet                                                              *)

Init ==
    /\ data_exists \in BOOLEAN
    /\ \E S \in SUBSET FileNames :
         /\ Cardinality(S) <= MaxFiles
         /\ data_exists \/ S = {}
         /\ data \in [S -> Contents]
         /\ mtime = [f \in S |-> 1]
    /\ fs = [p \in {SCRIPT_FILE} |-> [kind |-> "script"]]
    /\ pc = "idle"
    /\ queue = <<>>
    /\ terms = <<>>
    /\ alias_map = <<>>
    /\ idx = 0
    /\ error = <<>>
    /\ written = {}
    /\ touched = {}
    /\ runs = 0
    /\ uuid_calls = 0
    /\ start = [exists |-> data_exists, data |-> data, mtime |-> mtime, fs |-> fs]
    /\ prev = <<>>

\* Initial states with fewer files and more kinds of file content
WideInit ==
    /\ data_exists = TRUE
    /\ \E S \in SUBSET FileNames :
         /\ Cardinality(S) <= MaxWideFiles
         /\ data \in [S -> WideContents]
         /\ mtime = [f \in S |-> 1]
    /\ fs = [p \in {SCRIPT_FILE} |-> [kind |-> "script"]]
    /\ pc = "idle"
    /\ queue = <<>>
    /\ terms = <<>>
    /\ alias_map = <<>>
    /\ idx = 0
    /\ error = <<>>
    /\ written = {}
    /\ touched = {}
    /\ runs = 0
    /\ uuid_calls = 0
    /\ start = [exists |-> data_exists, data |-> data, mtime |-> mtime, fs |-> fs]
    /\ prev = <<>>

----------------------------------------------------------------------------
(* load_terms *)

\* python3 generate_terms.py: main() calls load_terms(), which checks the
\* data directory and lists its *.json files in sorted order
StartRun ==
    /\ pc \in Ended \cup {"idle"}
    /\ runs < MaxRuns
    /\ runs' = runs + 1
    /\ prev' = IF pc = "idle" THEN prev ELSE <<Outcome>>
    /\ start' = Snapshot
    /\ terms' = <<>>
    /\ alias_map' = <<>>
    /\ idx' = 0
    /\ written' = {}
    /\ touched' = {}
    /\ IF ~data_exists
       THEN /\ pc' = "failed"
            /\ error' = <<Fail("nodir", "data", "")>>
            /\ queue' = <<>>
       ELSE /\ pc' = "load"
            /\ error' = <<>>
            /\ queue' = SortedSeq(Glob(data))
    /\ UNCHANGED <<data_exists, data, mtime, fs, uuid_calls>>

Abort(message) ==
    /\ pc' = "failed"
    /\ error' = <<message>>

\* json.load raises JSONDecodeError
LoadParseError ==
    /\ pc = "load"
    /\ queue # <<>>
    /\ data[Head(queue)].kind = "unparseable"
    /\ Abort(Fail("parse", Head(queue), ""))
    /\ UNCHANGED <<data_exists, data, mtime, fs, queue, terms, alias_map, idx,
                   written, touched, runs, uuid_calls, start, prev>>

\* an exception nobody catches ends the process with a traceback
Crash(path, exception) ==
    /\ pc' = "crashed"
    /\ error' = <<Fail("exception", path, exception)>>

\* validate_term_types evaluates `field not in data` on a value that is no
\* container: TypeError, which nothing catches
LoadTypeError ==
    /\ pc = "load"
    /\ queue # <<>>
    /\ data[Head(queue)].kind = "scalar"
    /\ Crash(Head(queue), "TypeError")
    /\ UNCHANGED <<data_exists, data, mtime, fs, queue, terms, alias_map, idx,
                   written, touched, runs, uuid_calls, start, prev>>

\* validate_term_types fails
LoadInvalid ==
    /\ pc = "load"
    /\ queue # <<>>
    /\ data[Head(queue)].kind = "object"
    /\ validate_term_types(data[Head(queue)], Head(queue)) # <<>>
    /\ Abort(validate_term_types(data[Head(queue)], Head(queue))[1])
    /\ UNCHANGED <<data_exists, data, mtime, fs, queue, terms, alias_map, idx,
                   written, touched, runs, uuid_calls, start, prev>>

\* the file is valid and carries a termId: the record is appended
LoadKeep ==
    /\ pc = "load"
    /\ queue # <<>>
    /\ LET filepath == Head(queue)
           d == data[filepath]
       IN  /\ d.kind = "object"
           /\ validate_term_types(d, filepath) = <<>>
           /\ LET r == normalize_term_file(d, uuid4(uuid_calls))
               IN  /\ ~r.wrote
                   /\ terms' = Append(terms,
                                 MakeTerm(Stem(filepath), d, r.term_id, mtime[filepath]))
    /\ queue' = Tail(queue)
    /\ UNCHANGED <<data_exists, data, mtime, fs, pc, alias_map, idx, error,
                   written, touched, runs, uuid_calls, start, prev>>

\* the file is valid and has no termId: a fresh one is written back
LoadBackfill ==
    /\ pc = "load"
    /\ queue # <<>>
    /\ LET filepath == Head(queue)
           d == data[filepath]
       IN  /\ d.kind = "object"
           /\ validate_term_types(d, filepath) = <<>>
           /\ LET r == normalize_term_file(d, uuid4(uuid_calls))
               IN  /\ r.wrote
                   /\ data' = [data EXCEPT ![filepath] = r.data]
                   /\ mtime' = [mtime EXCEPT ![filepath] = Now]
                   /\ touched' = touched \cup {filepath}
                   /\ terms' = Append(terms,
                                 MakeTerm(Stem(filepath), d, r.term_id, Now))
    /\ uuid_calls' = uuid_calls + 1
    /\ queue' = Tail(queue)
    /\ UNCHANGED <<data_exists, fs, pc, alias_map, idx, error,
                   written, runs, start, prev>>

\* write_json_file catches OSError: open() failed and the file is as it
\* was, or the write failed after open() had truncated the file
LoadBackfillFail ==
    /\ pc = "load"
    /\ queue # <<>>
    /\ LET filepath == Head(queue)
           d == data[filepath]
       IN  /\ d.kind = "object"
           /\ validate_term_types(d, filepath) = <<>>
           /\ normalize_term_file(d, uuid4(uuid_calls)).wrote
           /\ \/ UNCHANGED <<data, mtime, touched>>
              \/ /\ data' = [data EXCEPT ![filepath] = Unparseable]
                 /\ mtime' = [mtime EXCEPT ![filepath] = Now]
                 /\ touched' = touched \cup {filepath}
           /\ Abort(Fail("write", filepath, "termId"))
    /\ uuid_calls' = uuid_calls + 1
    /\ UNCHANGED <<data_exists, fs, queue, terms, alias_map, idx,
                   written, runs, start, prev>>

\* variant: main() does not test the list for emptiness
LoadReturn_noemptycheck ==
    /\ pc = "load"
    /\ queue = <<>>
    /\ terms' = SortBySlug(terms)
    /\ pc' = MainOrder[1]
    /\ error' = <<>>
    /\ UNCHANGED <<data_exists, data, mtime, fs, queue, alias_map, idx,
                   written, touched, runs, uuid_calls, start, prev>>

\* the loop is over: load_terms sorts and returns, main() rejects an empty list
LoadReturn ==
    /\ pc = "load"
    /\ queue = <<>>
    /\ terms' = SortBySlug(terms)
    /\ IF terms = <<>>
       THEN Abort(Fail("noterms", "data", ""))
       ELSE /\ pc' = MainOrder[1]
            /\ error' = <<>>
    /\ UNCHANGED <<data_exists, data, mtime, fs, queue, alias_map, idx,
                   written, touched, runs, uuid_calls, start, prev>>

----------------------------------------------------------------------------
(* the rest of main() *)

AliasCollision ==
    /\ pc = "alias"
    /\ build_alias_map(terms).err # <<>>
    /\ Abort(build_alias_map(terms).err[1])
    /\ UNCHANGED <<data_exists, data, mtime, fs, queue, terms, alias_map, idx,
                   written, touched, runs, uuid_calls, start, prev>>

AliasMapBuilt ==
    /\ pc = "alias"
    /\ build_alias_map(terms).err = <<>>
    /\ alias_map' = build_alias_map(terms).map
    /\ pc' = Advance("alias", alias_map')
    /\ UNCHANGED <<data_exists, data, mtime, fs, queue, terms, idx, error,
                   written, touched, runs, uuid_calls, start, prev>>

\* jsonld and page are built, then write_file(OUTPUT_FILE, page); nothing
\* ever makes index.html a directory
WriteIndex ==
    /\ pc = "write_index"
    /\ CanWriteTop(fs, OUTPUT_FILE)
    /\ fs' = Put(fs, OUTPUT_FILE, build_page(terms, build_jsonld(terms), alias_map))
    /\ written' = written \cup {OUTPUT_FILE}
    /\ idx' = 0
    /\ pc' = Advance("write_index", alias_map)
    /\ UNCHANGED <<data_exists, data, mtime, queue, terms, alias_map, error,
                   touched, runs, uuid_calls, start, prev>>

\* one iteration of write_term_pages
WriteTermPage ==
    /\ pc = "write_terms"
    /\ LET term == terms[idx + 1]
       IN  /\ CanWritePage(fs, term.slug)
           /\ fs' = Put(fs, PagePath(term.slug), build_term_page(term))
           /\ written' = written \cup {PagePath(term.slug)}
    /\ IF idx + 1 = Len(terms)
       THEN /\ idx' = 0
            /\ pc' = Advance("write_terms", alias_map)
       ELSE /\ idx' = idx + 1
            /\ pc' = pc
    /\ UNCHANGED <<data_exists, data, mtime, queue, terms, alias_map, error,
                   touched, runs, uuid_calls, start, prev>>

\* mkdir raises FileExistsError: the slug names an existing regular file
WriteTermPageCrash ==
    /\ pc = "write_terms"
    /\ ~CanWritePage(fs, terms[idx + 1].slug)
    /\ Crash(PagePath(terms[idx + 1].slug), "FileExistsError")
    /\ UNCHANGED <<data_exists, data, mtime, fs, queue, terms, alias_map, idx,
                   written, touched, runs, uuid_calls, start, prev>>

\* one iteration of write_alias_redirects; no alias used here names a regular
\* file of SCRIPT_DIR, so mkdir does not raise
WriteAliasRedirect ==
    /\ pc = "write_aliases"
    /\ LET alias == alias_map[idx + 1][1]
           canonical_slug == alias_map[idx + 1][2]
       IN  /\ CanWritePage(fs, alias)
           /\ fs' = Put(fs, PagePath(alias),
                        build_alias_redirect_page(alias, canonical_slug))
           /\ written' = written \cup {PagePath(alias)}
    /\ IF idx + 1 = Len(alias_map)
       THEN /\ idx' = 0
            /\ pc' = Advance("write_aliases", alias_map)
       ELSE /\ idx' = idx + 1
            /\ pc' = pc
    /\ UNCHANGED <<data_exists, data, mtime, queue, terms, alias_map, error,
                   touched, runs, uuid_calls, start, prev>>

\* export_terms: terms.json, then terms.ndjson; no name used here makes
\* either path a directory
ExportTerms ==
    /\ pc = "export"
    /\ CanWriteTop(fs, TERMS_JSON_FILE)
    /\ CanWriteTop(fs, TERMS_NDJSON_FILE)
    /\ fs' = Put(Put(fs, TERMS_JSON_FILE,
                     [kind |-> "json", text |-> ExportObjects(terms)]),
                 TERMS_NDJSON_FILE,
                 [kind |-> "ndjson", text |-> ExportObjects(terms)])
    /\ written' = written \cup {TERMS_JSON_FILE, TERMS_NDJSON_FILE}
    /\ pc' = Advance("export", alias_map)
    /\ UNCHANGED <<data_exists, data, mtime, queue, terms, alias_map, idx, error,
                   touched, runs, uuid_calls, start, prev>>

\* write_sitemap_terms, then the summary is printed and the process exits 0
WriteSitemap ==
    /\ pc = "sitemap"
    /\ CanWriteTop(fs, SITEMAP_TERMS_FILE)
    /\ fs' = Put(fs, SITEMAP_TERMS_FILE,
                 [kind |-> "sitemap", urls |-> SitemapUrls(terms)])
    /\ written' = written \cup {SITEMAP_TERMS_FILE}
    /\ pc' = Advance("sitemap", alias_map)
    /\ UNCHANGED <<data_exists, data, mtime, queue, terms, alias_map, idx, error,
                   touched, runs, uuid_calls, start, prev>>

\* between two runs the data directory is put back as it was before the
\* last run (contents and modification times)
RestoreData ==
    /\ pc \in Ended
    /\ runs < MaxRuns
    /\ data_exists
    /\ <<data, mtime>> # <<start.data, start.mtime>>
    /\ data' = start.data
    /\ mtime' = start.mtime
    /\ prev' = <<Outcome>>
    /\ pc' = "idle"
    /\ UNCHANGED <<data_exists, fs, queue, terms, alias_map, idx, error,
                   written, touched, runs, uuid_calls, start>>

Next ==
    \/ StartRun
    \/ LoadParseError
    \/ LoadTypeError
    \/ LoadInvalid
    \/ LoadKeep
    \/ LoadBackfill
    \/ LoadBackfillFail
    \/ LoadReturn
    \/ AliasCollision
    \/ AliasMapBuilt
    \/ WriteIndex
    \/ WriteTermPage
    \/ WriteTermPageCrash
    \/ WriteAliasRedirect
    \/ ExportTerms
    \/ WriteSitemap
    \/ RestoreData

Spec == Init /\ [][Next]_vars

WideSpec == WideInit /\ [][Next]_vars

----------------------------------------------------------------------------
(* Properties *)

IsValid(d, filename) == d.kind = "object" /\ validate_term_types(d, filename) = <<>>

TermSlugs == {terms[k].slug : k \in 1..Len(terms)}

\* main() is past the call of load_terms
LoadReturned ==
    \/ pc \in {MainOrder[i] : i \in 1..Len(MainOrder)}
    \/ pc = "crashed" /\ error[1].field # "TypeError"
    \/ pc = "failed" /\ error[1].kind \in {"noterms", "alias"}

\* main() is past the call of build_alias_map, which returned a map
AliasMapReturned ==
    \/ pc \in {"write_index", "write_terms", "write_aliases", "export", "sitemap", "done"}
    \/ pc = "crashed" /\ error[1].field # "TypeError"

\* build_alias_map was called and has ended
AliasRan == AliasMapReturned \/ (pc = "failed" /\ error[1].kind = "alias")

\* C1: once load_terms has returned there is exactly one record per *.json
\* file, the slugs are the file name stems and the list is in strictly
\* ascending slug order; with only valid files no parse or schema error ends
\* the run.
C1_OneRecordPerFileSorted ==
    /\ LoadReturned =>
         /\ Len(terms) = Cardinality(Glob(data))
         /\ TermSlugs = {Stem(f) : f \in Glob(data)}
         /\ \A i, j \in 1..Len(terms) : i < j => StrLess(terms[i].slug, terms[j].slug)
    /\ (pc = "failed" /\ \A f \in DOMAIN start.data : IsValid(start.data[f], f))
         => error[1].kind \notin {"parse", "schema", "missing"}

\* two files whose file-name order is the reverse of their slug order
W_C1_SortedAgainstFileOrder ==
    /\ LoadReturned
    /\ Len(terms) = 2
    /\ terms[1].slug = "a"
    /\ terms[2].slug = "a-"

\* the run did not end on an OSError of the backfill write
NoWriteError(e) == e = <<>> \/ e[1].kind # "write"

\* C2 as stated: after any run (leaving aside the runs that end on a write
\* error), every source file that was valid and had no termId when the run
\* started contains a termId of the accepted shape.
CE_C2_EveryRunStamps ==
    (pc \in Ended /\ NoWriteError(error)) =>
        \A f \in DOMAIN start.data :
            (IsValid(start.data[f], f) /\ "termId" \notin start.data[f].has)
                => ("termId" \in data[f].has /\ TERM_ID_RE_match(data[f].termId))

\* C2 amended: every file the run has loaded (load_terms got past it) contains
\* a termId of the accepted shape, which is the one in its record; and a file
\* that still holds the termId the previous run returned for it gets that
\* termId again and is not written.
C2_LoadedFilesStampedOnce ==
    pc # "idle" =>
        \A k \in 1..Len(terms) :
            LET f == terms[k].slug \o ".json"
            IN  /\ "termId" \in data[f].has
                /\ TERM_ID_RE_match(data[f].termId)
                /\ data[f].termId = terms[k].termId
                /\ \A j \in 1..(IF prev = <<>> THEN 0 ELSE Len(prev[1].terms)) :
                     ( /\ prev[1].terms[j].slug = terms[k].slug
                       /\ Get(start.data[f], "termId") = <<prev[1].terms[j].termId>> )
                     => (terms[k].termId = prev[1].terms[j].termId /\ f \notin touched)

\* the second run over a file the first run has stamped
W_C2_SecondRunOverStampedFile ==
    /\ pc = "done"
    /\ prev # <<>>
    /\ prev[1].touched # {}
    /\ touched = {}
    /\ \E k \in 1..Len(terms) : (terms[k].slug \o ".json") \in prev[1].touched

AliasEqualsSlug ==
    \E k \in 1..Len(terms) : \E i \in 1..Len(terms[k].aliases) :
        terms[k].aliases[i] \in TermSlugs

\* C3: when build_alias_map has run over a list in which some alias equals a
\* canonical slug, the run has ended with an alias-collision error and there is
\* no alias map.
C3_AliasEqualToSlugAborts ==
    (AliasRan /\ AliasEqualsSlug) =>
        (pc = "failed" /\ error[1].kind = "alias" /\ alias_map = <<>>)

\* the alias of an earlier term is the slug of a later one
W_C3_AliasOfLaterSlug ==
    /\ pc = "failed"
    /\ error[1].kind = "alias"
    /\ \E k, j \in 1..Len(terms) :
         k < j /\ terms[k].aliases # <<>> /\ terms[k].aliases[1] = terms[j].slug

SharedAlias ==
    \E k, j \in 1..Len(terms) :
        /\ k # j
        /\ \E i \in 1..Len(terms[k].aliases) : \E h \in 1..Len(terms[j].aliases) :
             terms[k].aliases[i] = terms[j].aliases[h]

C5_NoOutputOnAbort ==
    (pc = "failed" /\ error[1].kind \in {"schema", "missing", "alias"})
        => (written = {} /\ fs = start.fs)

\* the abort nearest to the first write: an alias collision
W_C5_AbortOnCollision ==
    /\ pc = "failed"
    /\ error[1].kind = "alias"
    /\ written = {}

DeclaredAliases ==
    UNION {{terms[k].aliases[i] : i \in 1..Len(terms[k].aliases)} : k \in 1..Len(terms)}

Declares(k, alias) == \E i \in 1..Len(terms[k].aliases) : terms[k].aliases[i] = alias

C7_OnlyBackfillWrites ==
    pc # "idle" =>
        /\ DOMAIN data = DOMAIN start.data
        /\ \A f \in touched : "termId" \notin start.data[f].has
        /\ \A f \in DOMAIN data \ touched :
             data[f] = start.data[f] /\ mtime[f] = start.mtime[f]

\* one file backfilled, one file with a termId loaded and left alone
W_C7_StampedFileLeftAlone ==
    /\ pc \in Ended
    /\ Len(terms) = 2
    /\ Cardinality(touched) = 1
    /\ \E f \in DOMAIN data \ touched : "termId" \in start.data[f].has

SameDirectory ==
    /\ prev # <<>>
    /\ prev[1].start.exists = start.exists
    /\ prev[1].start.data = start.data
    /\ prev[1].start.mtime = start.mtime

SameOutcome ==
    /\ prev[1].pc = pc
    /\ prev[1].error = error
    /\ prev[1].terms = terms
    /\ prev[1].alias_map = alias_map
    /\ prev[1].fs = fs

\* C8 as stated: two runs started from identical data directories (neither
\* ending on a write error) end with the same term list, alias map and files.
CE_C8_Deterministic ==
    ( /\ pc \in Ended
      /\ SameDirectory
      /\ NoWriteError(error)
      /\ NoWriteError(prev[1].error) ) => SameOutcome

AllStamped(dir) == \A f \in DOMAIN dir : IsValid(dir[f], f) => "termId" \in dir[f].has

\* C8 amended: two runs started from identical data directories in which every
\* valid source file already carries a termId end the same way, with the same
\* term list, alias map and files.
C8_DeterministicWhenStamped ==
    (pc \in Ended /\ SameDirectory /\ AllStamped(start.data)) => SameOutcome

\* a complete second run over a directory of stamped files
W_C8_SecondCompleteRun ==
    /\ pc = "done"
    /\ SameDirectory
    /\ AllStamped(start.data)
    /\ Len(terms) = 2

AllOutputs ==
    {OUTPUT_FILE, TERMS_JSON_FILE, TERMS_NDJSON_FILE, SITEMAP_TERMS_FILE}
    \cup {PagePath(terms[k].slug) : k \in 1..Len(terms)}
    \cup {PagePath(a) : a \in DictKeys(alias_map)}

\* C9: a run that has ended has either written every output file and exited
\* with status 0, or failed with an error message and written none.
CE_C9_AllOrNothing ==
    pc \in Ended =>
        \/ pc = "done" /\ written = AllOutputs
        \/ pc = "failed" /\ written = {}

DropKeys(f, keys) == [k \in DOMAIN f \ keys |-> f[k]]

NoneFields(term) ==
    {f \in {"temporalCoverage", "startDate", "endDate", "dateISO"} : term[f] = <<>>}

Exported == ParseObjects(fs[TERMS_JSON_FILE].text)

\* C10 as stated: terms.json parsed back gives, canonicalUrl apart, the
\* normalized term records in the same order.
CE_C10_RoundTrip ==
    TERMS_JSON_FILE \in written =>
        /\ Len(Exported) = Len(terms)
        /\ \A k \in 1..Len(terms) :
             DropKeys(Exported[k], {"canonicalUrl"}) = terms[k]

\* C10 amended: terms.json parsed back gives, canonicalUrl apart, the
\* normalized term records in the same order without their source_mtime and
\* without the machine-date fields that are None.
C10_RoundTripExportedFields ==
    TERMS_JSON_FILE \in written =>
        /\ Len(Exported) = Len(terms)
        /\ \A k \in 1..Len(terms) :
             DropKeys(Exported[k], {"canonicalUrl"})
                = DropKeys(terms[k], {"source_mtime"} \cup NoneFields(terms[k]))

\* two terms exported, one with a startDate and one with an alias
W_C10_ExportedWithDateAndAlias ==
    /\ TERMS_JSON_FILE \in written
    /\ Len(terms) = 2
    /\ \E k \in 1..2 : terms[k].startDate # <<>>
    /\ \E k \in 1..2 : terms[k].aliases # <<>>

SitemapEntries == fs[SITEMAP_TERMS_FILE].urls

\* C11: after a successful run over N terms the sitemap holds N+1 entries:
\* the index first, then the canonical URL of each term in term-list order;
\* no entry is the URL of an alias.
C11_SitemapIndexThenTerms ==
    pc = "done" =>
        /\ Len(SitemapEntries) = Len(terms) + 1
        /\ SitemapEntries[1].loc = CANONICAL_BASE_URL
        /\ \A k \in 1..Len(terms) :
             SitemapEntries[k + 1].loc = canonical_term_url(terms[k].slug)
        /\ \A a \in DictKeys(alias_map) : \A i \in 1..Len(SitemapEntries) :
             SitemapEntries[i].loc # canonical_term_url(a)

\* a successful run over two terms, one of them with an alias
W_C11_TwoTermsOneAlias ==
    /\ pc = "done"
    /\ Len(terms) = 2
    /\ Len(alias_map) = 1
    /\ Len(SitemapEntries) = 3

PagesOfKind(kind) == {p \in DOMAIN fs : fs[p].kind = kind}

\* C12: after a successful run there is exactly one index page, one term page
\* per canonical slug (at <slug>/index.html) and one redirect page per key of
\* the alias map (at <alias>/index.html); the redirect page of alias a targets
\* the canonical URL of alias_map[a], which is the slug of a term whose page
\* was written in this run.
CE_C12_OnePagePerSlugAndAlias ==
    pc = "done" =>
        /\ PagesOfKind("index") = {OUTPUT_FILE}
        /\ Cardinality(PagesOfKind("term")) = Len(terms)
        /\ \A k \in 1..Len(terms) :
             /\ PagePath(terms[k].slug) \in written
             /\ fs[PagePath(terms[k].slug)] = build_term_page(terms[k])
        /\ Cardinality(PagesOfKind("redirect")) = Len(alias_map)
        /\ \A i \in 1..Len(alias_map) :
             /\ PagePath(alias_map[i][1]) \in written
             /\ fs[PagePath(alias_map[i][1])].kind = "redirect"
             /\ fs[PagePath(alias_map[i][1])].canonical
                    = canonical_term_url(alias_map[i][2])
             /\ alias_map[i][2] \in TermSlugs
             /\ fs[PagePath(alias_map[i][2])].kind = "term"

\* the DefinedTerm node of the k-th term in the graph of the index page
IndexNode(k) == fs[OUTPUT_FILE].jsonld[5 + k]

\* the DefinedTerm node in the graph of the page of the k-th term
PageNode(k) == fs[PagePath(terms[k].slug)].jsonld[2]

TypedRef(type, id) == << << <<"@type", type>>, <<"@id", id>> >> >>

\* the outcome the rule set gives for the URL u, against the isDefinedIn
\* member (<<>> when the node has none) of a node
RuleOutcome(u, member) ==
    /\ u \in no_defined_in => member = <<>>
    /\ (u \notin no_defined_in /\ Contains(u, "archive.mycal.net"))
          => member = TypedRef("DiscussionForumPosting", u)
    /\ (u \notin no_defined_in /\ ~Contains(u, "archive.mycal.net")
          /\ Contains(u, "tag/"))
          => member = TypedRef("CreativeWorkSeries", u)
    /\ (u \notin no_defined_in /\ ~Contains(u, "archive.mycal.net")
          /\ ~Contains(u, "tag/"))
          => member = TypedRef("Article", u \o "#article")

\* C13: the node built for a term classifies the URL of the term's first link
\* by the ordered rules: an excluded root URL gives no isDefinedIn; otherwise
\* the archive domain gives a DiscussionForumPosting with the URL as @id;
\* otherwise the tag segment gives a CreativeWorkSeries with the URL as @id;
\* otherwise an Article with the URL plus "#article" as @id.
C13_FirstLinkClassification ==
    OUTPUT_FILE \in written =>
        \A k \in 1..Len(terms) :
            RuleOutcome(terms[k].links[1].url, DictGet(IndexNode(k), "isDefinedIn"))

\* a first link that contains both the archive domain and the tag segment
W_C13_ArchiveAndTag ==
    /\ OUTPUT_FILE \in written
    /\ Len(terms) = 1
    /\ Contains(terms[1].links[1].url, "archive.mycal.net")
    /\ Contains(terms[1].links[1].url, "tag/")
    /\ DictGet(IndexNode(1), "isDefinedIn")
          = TypedRef("DiscussionForumPosting", terms[1].links[1].url)

FirstLinkOnly(term) == [term EXCEPT !.links = <<term.links[1]>>]

\* C14: the DefinedTerm node of a term, in the graph of the index page and in
\* the graph of its own page, is the node of the same record cut down to its
\* first link: the links after the first one do not show in it.  (The page
\* looked at is the term page while it is the file at <slug>/index.html.)
C14_LaterLinksNotInGraph ==
    /\ OUTPUT_FILE \in written =>
         \A k \in 1..Len(terms) :
            IndexNode(k) = build_defined_term_node(FirstLinkOnly(terms[k]))
    /\ \A k \in 1..Len(terms) :
         (PagePath(terms[k].slug) \in written /\ fs[PagePath(terms[k].slug)].kind = "term")
            => PageNode(k) = build_defined_term_node(FirstLinkOnly(terms[k]))

\* a term page written for a term whose second link alone would classify as
\* a forum posting
W_C14_SecondLinkOfAnotherClass ==
    /\ Len(terms) = 1
    /\ PagePath(terms[1].slug) \in written
    /\ fs[PagePath(terms[1].slug)].kind = "term"
    /\ Len(terms[1].links) = 2
    /\ terms[1].links[1].url = "https://example.com/a"
    /\ Contains(terms[1].links[2].url, "archive.mycal.net")

NonBlank(v) == Strip(v) # ""

\* a date in the form YYYY-MM-DD that names a day of the calendar
IsCalendarDate(v) ==
    /\ v.w = <<4, 2, 2>>
    /\ v.y \in 1..9999
    /\ v.m \in 1..12
    /\ v.d \in 1..DaysInMonth(v.y, v.m)

\* the rules of C16 on the values of a term record
RecordObeysRules(t) ==
    /\ NonBlank(t.name) /\ NonBlank(t.date) /\ NonBlank(t.description)
    /\ t.links # <<>>
    /\ \A i \in 1..Len(t.links) : NonBlank(t.links[i].url) /\ NonBlank(t.links[i].label)
    /\ \A i \in 1..Len(t.sameAs) : NonBlank(t.sameAs[i])
    /\ \A i \in 1..Len(t.aliases) : NonBlank(t.aliases[i])
    /\ TERM_ID_RE_match(t.termId)
    /\ t.temporalCoverage # <<>> => NonBlank(t.temporalCoverage[1])
    /\ \A f \in {"startDate", "endDate", "dateISO"} :
         t[f] # <<>> => IsCalendarDate(t[f][1])

\* the rules of C16 on the shape of a source file: a JSON object with the
\* required fields, every field and every link of the type the rules name
FileObeysRules(d) ==
    /\ d.kind = "object"
    /\ {"name", "date", "description", "links"} \subseteq d.has
    /\ d.badtype = {}
    /\ \A i \in 1..Len(d.links) :
         /\ d.links[i].isobj
         /\ {"url", "label"} \subseteq d.links[i].has
         /\ d.links[i].badtype = {}

\* C16: every record of a list returned by load_terms obeys the schema rules
\* (non-blank name, date, description; non-empty links with non-blank url and
\* label; non-blank sameAs and aliases; a termId of the URN-UUID shape; a
\* non-blank temporalCoverage when set; startDate, endDate, dateISO valid
\* YYYY-MM-DD calendar dates when set), and a directory with a file that breaks
\* one of the rules yields no list.
CE_C16_ReturnedRecordsSchemaValid ==
    LoadReturned =>
        /\ \A k \in 1..Len(terms) : RecordObeysRules(terms[k])
        /\ \A f \in DOMAIN start.data : FileObeysRules(start.data[f])

BadTermId(d) ==
    /\ d.kind = "object"
    /\ "termId" \in d.has
    /\ "termId" \in d.badtype \/ ~TERM_ID_RE_match(d.termId)

\* C17: a source file whose termId is present but not of the URN-UUID shape
\* (the empty string, a value that is no string, null) makes the run abort
\* before any output is written, is never written and never gives a record; and a file that has a termId is
\* never written: its record carries the termId of the file.
C17_PresentBadTermIdAborts ==
    pc # "idle" =>
        \A f \in DOMAIN start.data :
            LET d == start.data[f]
            IN  /\ BadTermId(d) =>
                     /\ f \notin touched
                     /\ data[f] = d
                     /\ Stem(f) \notin TermSlugs
                     /\ pc \in Ended => (pc # "done" /\ written = {})
                /\ (d.kind = "object" /\ "termId" \in d.has) =>
                     /\ f \notin touched
                     /\ data[f] = d
                     /\ \A k \in 1..Len(terms) :
                          terms[k].slug = Stem(f) => terms[k].termId = d.termId

\* a run aborted on a file whose termId is the empty string
W_C17_EmptyTermIdAborted ==
    /\ pc = "failed"
    /\ error[1].kind = "schema"
    /\ error[1].field = "termId"
    /\ start.data[error[1].file].termId = EmptyId
    /\ data = start.data

\* the process has ended through fail() on one of the validation failures
ValidationFailure ==
    /\ pc = "failed"
    /\ error # <<>>
    /\ error[1].kind \in {"nodir", "parse", "schema", "missing", "alias", "write", "noterms"}

\* C18: a process that has ended has a non-zero exit status exactly when a
\* validation failure occurred and status zero exactly when all outputs were
\* written; every abort went through fail(), which leaves an error message.
CE_C18_ExitStatusMatchesOutcome ==
    pc \in Ended =>
        /\ ExitStatus # 0 <=> ValidationFailure
        /\ ExitStatus = 0 <=> written = AllOutputs
        /\ pc # "done" => (pc = "failed" /\ error # <<>>)

\* C19: a run over a missing data directory aborts at once with an error,
\* before the directory is listed or a file is read; a run over a directory
\* without *.json file aborts with an error; in both cases no output file is
\* written and nothing else is touched.
C19_NoDirectoryOrNoFilesAborts ==
    pc # "idle" =>
        /\ ~start.exists =>
             (pc = "failed" /\ error[1].kind = "nodir" /\ queue = <<>> /\ terms = <<>>)
        /\ (start.exists /\ DOMAIN start.data = {} /\ pc \in Ended) =>
             (pc = "failed" /\ error[1].kind = "noterms")
        /\ (~start.exists \/ DOMAIN start.data = {}) =>
             (written = {} /\ fs = start.fs /\ touched = {} /\ data = start.data)

\* a run over an existing, empty data directory has ended
W_C19_EmptyDirectoryAborted ==
    /\ pc = "failed"
    /\ start.exists
    /\ DOMAIN start.data = {}
    /\ error[1].kind = "noterms"
    /\ written = {}

\* the source files that differ from what they were when the run started
Modified == {f \in DOMAIN data : data[f] # start.data[f] \/ mtime[f] # start.mtime[f]}

\* C20: when the run has aborted on a parse or schema violation in file F,
\* the source files modified by the run are exactly the files that sort before
\* F by file name and had no termId; F and the files after F are as they were.
C20_BackfillsBeforeFailingFile ==
    (pc = "failed" /\ error[1].kind \in {"parse", "schema", "missing"}) =>
        LET F == error[1].file
            earlier == {f \in DOMAIN start.data :
                          StrLess(f, F) /\ "termId" \notin start.data[f].has}
        IN  /\ Modified = earlier
            /\ touched = earlier
            /\ \A f \in DOMAIN data : (f = F \/ StrLess(F, f)) => data[f] = start.data[f]

\* the failing file is the second one and the first one was backfilled
W_C20_BackfillThenAbort ==
    /\ pc = "failed"
    /\ error[1].kind = "schema"
    /\ Cardinality(Modified) = 1
    /\ \A f \in Modified : StrLess(f, error[1].file)

\* the source files that had a violation when the run started
Violating == {f \in DOMAIN start.data : ~IsValid(start.data[f], f)}

\* the first of them in ascending file name order
FirstViolating == CHOOSE f \in Violating : \A g \in Violating \ {f} : StrLess(f, g)

RequiredFields == <<"name", "date", "description", "links">>

MissingRequired(d) == {i \in 1..Len(RequiredFields) : RequiredFields[i] \notin d.has}

\* C21: a run over a directory with a violation (leaving aside the runs that
\* end on a write error) has failed with an error that names the first
\* violating file in ascending file name order, without reading any file
\* after it; and when that file is an object that lacks required fields the
\* error reports the first lacking one in the order name, date, description,
\* links, whatever else is wrong in the file.
CE_C21_FirstViolationReported ==
    (pc \in Ended /\ Violating # {} /\ NoWriteError(error)) =>
        LET F == FirstViolating
            d == start.data[F]
        IN  /\ pc = "failed"
            /\ error[1].file = F
            /\ queue # <<>> /\ Head(queue) = F
            /\ \A f \in DOMAIN data : StrLess(F, f) => f \notin touched
            /\ (d.kind = "object" /\ MissingRequired(d) # {}) =>
                 /\ error[1].kind = "missing"
                 /\ error[1].field
                       = RequiredFields[CHOOSE i \in MissingRequired(d) :
                                           \A j \in MissingRequired(d) : i <= j]

IndexGraph == fs[OUTPUT_FILE].jsonld

TypeOf(node) == DictGet(node, "@type")

IdOf(node) == DictGet(node, "@id")

NodeCarriesDates(node, d, term_id) ==
    /\ \A f \in {"temporalCoverage", "startDate", "endDate"} :
         DictGet(node, f) = Get(d, f)
    /\ DictGet(node, "datePublished") = Get(d, "dateISO")
    /\ ~DictHas(node, "dateISO")
    /\ DictHas(node, "identifier")
    /\ DictGet(DictGet(node, "identifier")[1], "value") = <<term_id>>

\* C23: the DefinedTerm node of a loaded term, in the index graph and in the
\* graph of its page, has temporalCoverage, startDate and endDate under these
\* keys and dateISO under datePublished exactly when the source file has the
\* field, with the value of the file, and has the termId of the term as the
\* value of its identifier.
C23_NodeCarriesMachineDates ==
    \A k \in 1..Len(terms) :
        LET d == start.data[terms[k].slug \o ".json"]
        IN  /\ OUTPUT_FILE \in written
                 => NodeCarriesDates(IndexNode(k), d, terms[k].termId)
            /\ (PagePath(terms[k].slug) \in written
                  /\ fs[PagePath(terms[k].slug)].kind = "term")
                 => NodeCarriesDates(PageNode(k), d, terms[k].termId)

\* the page of a term whose file sets the four machine dates
W_C23_AllMachineDatesSet ==
    /\ Len(terms) = 1
    /\ PagePath(terms[1].slug) \in written
    /\ fs[PagePath(terms[1].slug)].kind = "term"
    /\ {"temporalCoverage", "startDate", "endDate", "dateISO"}
          \subseteq start.data[terms[1].slug \o ".json"].has
    /\ DictHas(PageNode(1), "datePublished")

MemberNames(pairs) == {pairs[i][1] : i \in 1..Len(pairs)}

ExportedNames ==
    {"slug", "name", "date", "description", "links", "sameAs", "aliases", "termId",
     "canonicalUrl"}

MachineDateNames == {"temporalCoverage", "startDate", "endDate", "dateISO"}

\* C24: terms.json and terms.ndjson of one run hold the same sequence of
\* objects, one per term in term-list order; each object has slug, name, date,
\* description, links, sameAs, aliases, termId and canonicalUrl, has no
\* source_mtime, and has a machine-date field exactly when the term has it set.
C24_ExportsAgree ==
    (TERMS_JSON_FILE \in written \/ TERMS_NDJSON_FILE \in written) =>
        LET text == fs[TERMS_JSON_FILE].text
        IN  /\ {TERMS_JSON_FILE, TERMS_NDJSON_FILE} \subseteq written
            /\ fs[TERMS_NDJSON_FILE].text = text
            /\ Len(text) = Len(terms)
            /\ \A k \in 1..Len(terms) :
                 /\ ExportedNames \subseteq MemberNames(text[k])
                 /\ MemberNames(text[k]) \subseteq ExportedNames \cup MachineDateNames
                 /\ "source_mtime" \notin MemberNames(text[k])
                 /\ DictGet(text[k], "slug") = <<terms[k].slug>>
                 /\ DictGet(text[k], "termId") = <<terms[k].termId>>
                 /\ \A f \in MachineDateNames :
                      f \in MemberNames(text[k]) <=> terms[k][f] # <<>>

\* the exports of two terms, one of them with a startDate
W_C24_TwoObjectsOneDate ==
    /\ TERMS_NDJSON_FILE \in written
    /\ Len(fs[TERMS_NDJSON_FILE].text) = 2
    /\ \E k \in 1..2 : "startDate" \in MemberNames(fs[TERMS_NDJSON_FILE].text[k])
    /\ \E k \in 1..2 : "startDate" \notin MemberNames(fs[TERMS_NDJSON_FILE].text[k])

\* C25: after a successful run the termIds of the loaded terms are pairwise
\* distinct, also when source files arrive with a termId already set.
CE_C25_TermIdsPairwiseDistinct ==
    pc = "done" =>
        \A i, j \in 1..Len(terms) : terms[i].termId = terms[j].termId => i = j

\* the output paths of a run in the order main() writes them
OutputPaths ==
    <<OUTPUT_FILE>>
    \o [k \in 1..Len(terms) |-> PagePath(terms[k].slug)]
    \o [i \in 1..Len(alias_map) |-> PagePath(alias_map[i][1])]
    \o <<TERMS_JSON_FILE, TERMS_NDJSON_FILE, SITEMAP_TERMS_FILE>>

\* C26: in a successful run the index page, the term pages, the redirect
\* pages, the two exports and the sitemap are written to pairwise distinct
\* paths, so that no write of the run replaces the file of an earlier one.
CE_C26_OutputPathsPairwiseDistinct ==
    pc = "done" =>
        \A i, j \in 1..Len(OutputPaths) : OutputPaths[i] = OutputPaths[j] => i = j

\* the orders in which n records can be listed
Perms(n) == {p \in [1..n -> 1..n] : \A i, j \in 1..n : p[i] = p[j] => i = j}

Permute(ts, p) == [k \in 1..Len(ts) |-> ts[p[k]]]

\* a dict as a mapping: its items without their order
Items(dict) == {dict[i] : i \in 1..Len(dict)}

\* the step of main() that follows the call of build_alias_map
AfterAlias == MainOrder[2]

\* C27: the result of build_alias_map does not depend on the order of the
\* term list: when it has failed with a collision it fails for every order of
\* the same records, and when it has returned a map (the state main() is
\* in right after the call) it returns the same alias-to-slug mapping for
\* every order.
C27_AliasMapOrderIndependent ==
    /\ (pc = "failed" /\ error[1].kind = "alias") =>
          \A p \in Perms(Len(terms)) :
              build_alias_map(Permute(terms, p)).err # <<>>
    /\ (pc = AfterAlias /\ idx = 0) =>
          \A p \in Perms(Len(terms)) :
              LET other == build_alias_map(Permute(terms, p))
              IN  other.err = <<>> /\ Items(other.map) = Items(alias_map)

\* a map of two aliases whose items come in the other order when the two
\* terms are swapped
W_C27_SwappedTermsSameMapping ==
    /\ pc = AfterAlias
    /\ idx = 0
    /\ Len(terms) = 2
    /\ Len(alias_map) = 2
    /\ build_alias_map(Permute(terms, <<2, 1>>)).map # alias_map
    /\ Items(build_alias_map(Permute(terms, <<2, 1>>)).map) = Items(alias_map)

\* C28: a source file rewritten by the backfill of this run holds the record
\* as it was read (every key with its value, the keys the generator does not
\* read included) plus the new termId, which was absent; nothing else is
\* added or removed.  (A file truncated by a failed write is no rewrite, and
\* the files are looked at before anybody restores them.)
C28_BackfillKeepsRecord ==
    \A f \in touched :
        (pc # "idle" /\ data[f].kind = "object") =>
            /\ "termId" \notin start.data[f].has
            /\ TERM_ID_RE_match(data[f].termId)
            /\ data[f] = WithField(start.data[f], "termId", data[f].termId)

\* a backfilled file that carries keys the generator does not read
W_C28_BackfilledFileWithOtherKeys ==
    \E f \in touched :
        /\ pc # "idle"
        /\ data[f].kind = "object"
        /\ start.data[f].other # <<>>
        /\ data[f].other = start.data[f].other
        /\ "termId" \in data[f].has

\* some alias is the slug of a term or is listed by two different terms
ForeignCollision ==
    \/ \E k \in 1..Len(terms) : \E n \in 1..Len(terms[k].aliases) :
           terms[k].aliases[n] \in TermSlugs
    \/ \E k1, k2 \in 1..Len(terms) :
           /\ k1 # k2
           /\ \E n1 \in 1..Len(terms[k1].aliases), n2 \in 1..Len(terms[k2].aliases) :
                  terms[k1].aliases[n1] = terms[k2].aliases[n2]

\* the terms that list one of their aliases more than once, with that alias
RepeatedAliases ==
    {ka \in (1..Len(terms)) \X AliasUniverse :
        \E i, j \in 1..Len(terms[ka[1]].aliases) :
            /\ i < j
            /\ terms[ka[1]].aliases[i] = ka[2]
            /\ terms[ka[1]].aliases[j] = ka[2]}

\* C29: a term that lists the same alias more than once is accepted: the
\* repetition alone makes build_alias_map report no collision, and the map
\* it returns has exactly one entry for that alias, which leads to the slug
\* of the term.
C29_RepeatedOwnAliasAccepted ==
    (AliasRan /\ RepeatedAliases # {}) =>
        /\ (pc = "failed" /\ error[1].kind = "alias") => ForeignCollision
        /\ AliasMapReturned =>
             \A ka \in RepeatedAliases :
                 /\ Cardinality({n \in 1..Len(alias_map) : alias_map[n][1] = ka[2]}) = 1
                 /\ DictGet(alias_map, ka[2]) = <<terms[ka[1]].slug>>

\* a map built from a term whose aliases array holds one alias twice
W_C29_AliasListedTwice ==
    /\ AliasMapReturned
    /\ RepeatedAliases # {}
    /\ Len(alias_map) = 1

\* C30: in the sitemap of a successful run the last-modified date of the
\* index entry is the maximum of the last-modified dates of the term
\* entries, so it is never earlier than the date of any term entry.
C30_IndexLastmodIsMaximum ==
    pc = "done" =>
        /\ SitemapEntries[1].lastmod
             = Max({SitemapEntries[k].lastmod : k \in 2..Len(SitemapEntries)})
        /\ \A k \in 2..Len(SitemapEntries) :
             SitemapEntries[k].lastmod <= SitemapEntries[1].lastmod

\* a sitemap whose first term entry is older than its second one: the
\* first file was modified on an earlier day
W_C30_LaterTermIsNewer ==
    /\ pc = "done"
    /\ Len(SitemapEntries) = 3
    /\ SitemapEntries[2].lastmod < SitemapEntries[3].lastmod
    /\ SitemapEntries[1].lastmod = SitemapEntries[3].lastmod

====
